---- MODULE Spec2Model ----
(***************************************************************************)
(* The background coordinator of the episode recorder (the service worker) *)
(* as a state machine over its IndexedDB stores.  Every handler is an      *)
(* async function: it is cut into one action per storage transaction, the  *)
(* synchronous code that follows a transaction belonging to the action of  *)
(* that transaction.  Handlers of different messages interleave freely at  *)
(* these points, as they do in the service worker.                         *)
(***************************************************************************)
EXTENDS Integers, Sequences, FiniteSets, Bags, TLC

\* Messages and navigation notifications the coordinator receives in one run.
MaxOps == 4
\* Episodes started (uuid() calls of startRecording) in one run.
MaxEpisodes == 2
\* Action events accepted (uuid() calls of the step branch) in one run.
MaxEvents == 2
\* Handlers and timer callbacks that may be suspended at an await together.
MaxInflight == 2

VARIABLES
  settings,   \* the value of the "recorder_state" record of store "settings"
  episodes,   \* keys (episode_id) of the records of store "episodes"
  steps,      \* store "steps": step_key -> row
  handlers,   \* frames of suspended async handlers and running timer callbacks
  timers,     \* post-capture timers set by setTimeout and not yet fired
  episodeCount, \* uuid() calls made for episode ids; the next one is fresh
  eventCount,   \* uuid() calls made for step ids; the next one is fresh
  opCount,    \* messages and notifications received so far
  lastOp,     \* what the last step answered or how its handler ended
  tab,        \* what chrome.tabs.get reports of the sender tab: url and title
  scrollY,    \* window.scrollY of the page in that tab
  document,   \* the candidates of a scan of the page, in document order
  scanLimit,  \* history: the limit of the last listInteractables(limit), 0 if none
  recorderEnabled, \* __recorderEnabled of the page context
  scrollTimer,     \* __scrollTimer: ms until the debounce callback runs, if armed
  lastScrollY,     \* __lastScrollY
  focusEl,         \* __focusEl: the element that took the focus, if kept
  focusPre,        \* __focusPre: the state summary built when it took the focus
  sent,            \* action events handed to sendMessage and not yet delivered
  emittedScrollY,  \* history: window.scrollY when the last scroll action was sent
  scanned          \* the last result of listInteractables()

\* The stores and handlers of the service worker.
coordVars == <<settings, episodes, steps, handlers, timers, episodeCount,
               eventCount, opCount, lastOp>>
\* The window the page context lives in, and what was last asked of it.
windowVars == <<tab, scrollY, document, scanLimit>>
\* The page context (content script).
pageVars == <<recorderEnabled, scrollTimer, lastScrollY, focusEl, focusPre, sent,
              emittedScrollY, scanned>>

vars == <<settings, episodes, steps, handlers, timers, episodeCount, eventCount,
          opCount, lastOp, tab, scrollY, document, scanLimit, recorderEnabled,
          scrollTimer,
          lastScrollY, focusEl, focusPre, sent, emittedScrollY, scanned>>

\* episodeId: null
NoEpisode == 0

\* The options a caller may send with RECORDER_START / RECORDER_SET_OPTIONS
\* (msg.options): one field or the other switched off.
OptionInputs ==
  { [captureScreenshots |-> FALSE], [captureDomState |-> FALSE] }

DefaultOptions == [captureScreenshots |-> TRUE, captureDomState |-> TRUE]

\* { ...a, ...b }
Spread(a, b) ==
  [k \in (DOMAIN a) \cup (DOMAIN b) |-> IF k \in DOMAIN b THEN b[k] ELSE a[k]]

\* `Recorded step ${stepNumber}.`
RecordedMsg(n) == "Recorded step " \o ToString(n) \o "."

\* `Navigation: ${details.url}`
NavigationMsg(url) == "Navigation: " \o url

\* `Recording started, but could not access the active tab: ${injected.error}`
InjectWarning == "Recording started, but could not access the active tab: Error"

\* init(): the settings record written when none is stored yet.
InitialSettings ==
  [ isRecording |-> FALSE, episodeId |-> NoEpisode, startedAt |-> 0,
    stepCount |-> 0, lastMessage |-> "", options |-> DefaultOptions ]

ClearedSettingsKeepingOptions(st) ==
  [ isRecording |-> FALSE, episodeId |-> NoEpisode, startedAt |-> 0,
    stepCount |-> 0, lastMessage |-> "Cleared.", options |-> st.options ]

ClearedSettingsByCase(st) ==
  [ isRecording |-> FALSE, episodeId |-> NoEpisode, startedAt |-> 0,
    stepCount |-> 0,
    lastMessage |-> IF st.episodeId # NoEpisode THEN "Cleared." ELSE "Nothing to clear.",
    options |-> DefaultOptions ]

\* clearAll(): the settings record it writes; st is the record it read.
ClearedSettings(st) ==
  [ isRecording |-> FALSE, episodeId |-> NoEpisode, startedAt |-> 0,
    stepCount |-> 0, lastMessage |-> "Cleared.", options |-> DefaultOptions ]

StartedSettingsCallerOnly(st, episodeId, now, options, lastMessage) ==
  [ isRecording |-> TRUE, episodeId |-> episodeId, startedAt |-> now,
    stepCount |-> 0, lastMessage |-> lastMessage,
    options |-> Spread(DefaultOptions, options) ]

\* startRecording(): the settings record it writes; st is the record it read.
StartedSettings(st, episodeId, now, options, lastMessage) ==
  [ isRecording |-> TRUE, episodeId |-> episodeId, startedAt |-> now,
    stepCount |-> 0, lastMessage |-> lastMessage,
    options |-> Spread(st.options, options) ]

StoppedSettingsResetCount(st) ==
  [st EXCEPT !.isRecording = FALSE, !.stepCount = 0,
             !.lastMessage = "Recording stopped."]

\* stopRecording(): { ...st, isRecording: false, lastMessage: "Recording stopped." }
StoppedSettings(st) ==
  [st EXCEPT !.isRecording = FALSE, !.lastMessage = "Recording stopped."]

\* setOptions(): { ...st, options: merged, lastMessage: "Options updated." }
OptionsSettings(st, options) ==
  [st EXCEPT !.options = Spread(st.options, options),
             !.lastMessage = "Options updated."]

\* RECORDER_EVENT: { ...st, stepCount: stepNumber + 1, lastMessage: ... }
RecordedSettings(st, stepNumber) ==
  [st EXCEPT !.stepCount = stepNumber + 1, !.lastMessage = RecordedMsg(stepNumber)]

\* onCommitted: { ...st, lastMessage: `Navigation: ${details.url}` }
NavigatedSettings(st, url) == [st EXCEPT !.lastMessage = NavigationMsg(url)]

EventAcceptedIfEpisode(st, hasTab) == st.episodeId # NoEpisode /\ hasTab

\* RECORDER_EVENT: the two early returns, negated.
EventAccepted(st, hasTab) ==
  st.isRecording /\ st.episodeId # NoEpisode /\ hasTab

TimerGuardNonNull(st3, episodeId) == st3.episodeId # NoEpisode

\* Timer callback: the episode guard, negated (the callback goes on).
TimerGuard(st3, episodeId) ==
  st3.episodeId # NoEpisode /\ st3.episodeId = episodeId

----------------------------------------------------------------------------
\* Store "steps".

\* step_key = `${episode_id}:${step_number}`
StepKey(episodeId, stepNumber) == <<episodeId, stepNumber>>

\* idbPut("steps", row)
PutStep(store, row) ==
  [k \in (DOMAIN store) \cup {StepKey(row.episode_id, row.step_number)} |->
     IF k = StepKey(row.episode_id, row.step_number) THEN row ELSE store[k]]

\* idbDelete("steps", key)
DeleteStep(store, key) == [k \in (DOMAIN store) \ {key} |-> store[k]]

\* The keys of index "by_episode" for one episode.
KeysOfEpisode(store, episodeId) == {k \in DOMAIN store : store[k].episode_id = episodeId}

RECURSIVE SortedRows(_, _)
\* rows.sort((a,b) => a.step_number - b.step_number), on rows with distinct keys
SortedRows(store, keys) ==
  IF keys = {} THEN <<>>
  ELSE LET k == CHOOSE x \in keys :
                  \A y \in keys : store[x].step_number <= store[y].step_number
       IN <<store[k]>> \o SortedRows(store, keys \ {k})

\* idbGetStepsForEpisode(episodeId)
GetStepsForEpisode(store, episodeId) ==
  SortedRows(store, KeysOfEpisode(store, episodeId))

\* The pending step record and its row (post: null, derived: null).
NullObservation == [kind |-> "null"]
NullDerived == [kind |-> "null"]
\* page_info: ... || null
NullPageInfo == [kind |-> "null"]
\* The value of a property read through ?. of null, or of a ternary's
\* undefined arm.
Undefined == [kind |-> "undefined"]

\* The pages the sender tab may show (tab.url, tab.title) and the vertical
\* scroll positions of its window.
TabStates ==
  { [url |-> "https://example.test/", title |-> "Example"],
    [url |-> "https://example.test/", title |-> "Example (1)"],
    [url |-> "https://example.test/next", title |-> "Example"] }
TabAtLoad == [url |-> "https://example.test/", title |-> "Example"]
ScrollPositions == {0, 100}

\* pageInfo() of the page context, as far as the coordinator reads it.
PageInfo(y) == [scroll_y |-> y]

\* pre.page_info?.scroll_y
ScrollYOf(obs) ==
  IF obs.page_info = NullPageInfo THEN Undefined ELSE [value |-> obs.page_info.scroll_y]

PreObservationUnmarked(st, tabNow, pageInfo, shotOk) ==
  [ kind |-> "observation",
    dom_state |-> IF st.options.captureDomState THEN "from_content" ELSE "empty",
    url |-> tabNow.url,
    title |-> tabNow.title,
    page_info |-> pageInfo,
    screenshot |-> IF ~st.options.captureScreenshots THEN "absent"
                   ELSE IF shotOk THEN "b64" ELSE "null",
    screenshot_error |-> FALSE ]

\* pre: url and title are those of the tab lookup, page_info is the one the
\* event brought, dom_state follows st.options.captureDomState, the screenshot
\* fields follow st.options.captureScreenshots and the capture's outcome.
PreObservation(st, tabNow, pageInfo, shotOk) ==
  [ kind |-> "observation",
    dom_state |-> IF st.options.captureDomState THEN "from_content" ELSE "empty",
    url |-> tabNow.url,
    title |-> tabNow.title,
    page_info |-> pageInfo,
    screenshot |-> IF ~st.options.captureScreenshots THEN "absent"
                   ELSE IF shotOk THEN "b64" ELSE "null",
    screenshot_error |-> st.options.captureScreenshots /\ ~shotOk ]

PendingRow(episodeId, stepNumber, stepId, pre, actionType) ==
  [ episode_id |-> episodeId, step_number |-> stepNumber,
    step |-> [ step_id |-> stepId, step_number |-> stepNumber, pre |-> pre,
               action |-> actionType, post |-> NullObservation,
               derived |-> NullDerived ] ]

\* requestPostState(): resp?.post of the page's answer, or { error } when
\* sendMessage rejects (no page context answers in that tab).
RequestPostState(pageOk, captureDomState, y) ==
  IF pageOk
    THEN [ dom_state |-> IF captureDomState THEN "from_content" ELSE "empty",
           page_info |-> PageInfo(y) ]
    ELSE [ error |-> "Error" ]

PostObservationAlwaysCapturing(st3, postFromContent, tab2, shotOk) ==
  [ kind |-> "observation",
    dom_state |-> IF "dom_state" \in DOMAIN postFromContent
                    THEN postFromContent.dom_state ELSE "none",
    url |-> tab2.url,
    title |-> tab2.title,
    page_info |-> IF "page_info" \in DOMAIN postFromContent
                    THEN postFromContent.page_info ELSE NullPageInfo,
    screenshot |-> IF shotOk THEN "b64" ELSE "null",
    screenshot_error |-> ~shotOk ]

\* post: built from the settings st3 re-read at fire time and what the page,
\* the tab lookup and the screenshot capture returned.
PostObservation(st3, postFromContent, tab2, shotOk) ==
  [ kind |-> "observation",
    dom_state |-> IF ~st3.options.captureDomState THEN "empty"
                  ELSE IF "dom_state" \in DOMAIN postFromContent
                         THEN postFromContent.dom_state ELSE "none",
    url |-> tab2.url,
    title |-> tab2.title,
    page_info |-> IF "page_info" \in DOMAIN postFromContent
                    THEN postFromContent.page_info ELSE NullPageInfo,
    screenshot |-> IF ~st3.options.captureScreenshots THEN "absent"
                   ELSE IF shotOk THEN "b64" ELSE "null",
    screenshot_error |-> st3.options.captureScreenshots /\ ~shotOk ]

\* derived.page_diff: one entry per field, undefined where pre and post agree.
PageDiff(pre, post) ==
  [ url |-> IF pre.url # post.url
              THEN [before |-> pre.url, after |-> post.url] ELSE Undefined,
    title |-> IF pre.title # post.title
                THEN [before |-> pre.title, after |-> post.title] ELSE Undefined,
    scroll_y |-> IF ScrollYOf(pre) # ScrollYOf(post)
                   THEN [before |-> ScrollYOf(pre), after |-> ScrollYOf(post)]
                   ELSE Undefined ]

\* derived = { page_diff }: pre is the handler's own pre, not the stored one.
Derived(pre, post) == [kind |-> "derived", page_diff |-> PageDiff(pre, post)]

\* row.step.post = post; row.step.derived = derived
FinalizedRow(row, post, derived) ==
  [row EXCEPT !.step.post = post, !.step.derived = derived]


----------------------------------------------------------------------------
\* Frames of suspended handlers.

NoResponse == [kind |-> "none"]
Op(name, resp) == [op |-> name, resp |-> resp]
\* The step suspended its handler at an await: nothing is answered yet.
Quiet == Op("await", NoResponse)

\* The frames are kept as a bag: handlers have no identity beyond their frame.
InFlight == BagToSet(handlers)
CanSuspend == BagCardinality(handlers) < MaxInflight
Started(frame) == handlers (+) SetToBag({frame})
Finished(f) == handlers (-) SetToBag({f})
Moved(f, frame) == Started(frame) (-) SetToBag({f})
At(f, type, pc) == f \in InFlight /\ f.type = type /\ f.pc = pc

\* dom_state when captureDomState is off, and a scan that found nothing
EmptyDomState == [ llm_representation |-> <<>>, selector_map |-> <<>>, elements_count |-> 0 ]

\* __scrollTimer = null
NoTimer == [kind |-> "null"]
\* __focusEl = null, __focusPre = null
NoElement == [kind |-> "null"]
NoSummary == [kind |-> "null"]

Init ==
  /\ settings = InitialSettings
  /\ episodes = {}
  /\ steps = <<>>
  /\ handlers = EmptyBag
  /\ timers = {}
  /\ episodeCount = 0
  /\ eventCount = 0
  /\ opCount = 0
  /\ lastOp = Op("init", NoResponse)
  /\ tab = TabAtLoad
  /\ scrollY = 0
  /\ document = <<>>
  /\ scanLimit = 0
  /\ recorderEnabled = FALSE
  /\ scrollTimer = NoTimer
  /\ lastScrollY = 0
  /\ focusEl = NoElement
  /\ focusPre = NoSummary
  /\ sent = <<>>
  /\ emittedScrollY = 0
  /\ scanned = EmptyDomState

----------------------------------------------------------------------------
\* RECORDER_GET_STATUS: sendResponse(st || {})
GetStatus ==
  /\ lastOp' = Op("status", [kind |-> "status", st |-> settings])
  /\ UNCHANGED <<windowVars, pageVars>>
  /\ UNCHANGED <<settings, episodes, steps, handlers, timers, episodeCount,
                 eventCount>>

----------------------------------------------------------------------------
\* RECORDER_START -> startRecording(msg.options).  The listener's own settings
\* read is not used on this path.

\* uuid(), idbPut("episodes", episode)
StartPutEpisode(options) ==
  /\ episodeCount < MaxEpisodes /\ CanSuspend
  /\ LET episodeId == episodeCount + 1 IN
       /\ episodeCount' = episodeId
       /\ episodes' = episodes \cup {episodeId}
       /\ handlers' = Started(
            [type |-> "start", pc |-> "get_settings", episodeId |-> episodeId,
             options |-> options])
  /\ lastOp' = Quiet
  /\ UNCHANGED <<windowVars, pageVars>>
  /\ UNCHANGED <<settings, steps, timers, eventCount>>

\* const st = await getSettings(); mergedOptions
StartGetSettings(f) ==
  /\ At(f, "start", "get_settings")
  /\ handlers' = Moved(f, [type |-> "start", pc |-> "set_settings",
                               episodeId |-> f.episodeId,
                               options |-> f.options, st |-> settings])
  /\ lastOp' = Quiet
  /\ UNCHANGED <<windowVars, pageVars>>
  /\ UNCHANGED <<settings, episodes, steps, timers, episodeCount, eventCount, opCount>>

\* getActiveTab(), ensureContentScript(): injected tells whether the script
\* could be attached (or there was no active tab to attach it to); setSettings.
StartSetSettings(f) ==
  /\ At(f, "start", "set_settings")
  /\ \E injected \in BOOLEAN :
       LET lastMessage == IF injected THEN "Recording started." ELSE InjectWarning
       IN /\ settings' = StartedSettings(f.st, f.episodeId, f.episodeId, f.options,
                                         lastMessage)
          /\ handlers' = Moved(f, [f EXCEPT !.pc = "respond"])
  /\ lastOp' = Quiet
  /\ UNCHANGED <<windowVars, pageVars>>
  /\ UNCHANGED <<episodes, steps, timers, episodeCount, eventCount, opCount>>

\* broadcastEnabled(enabled): RECORDER_SET_ENABLED reaches the page context of
\* the tab, whose listener sets __recorderEnabled = !!msg.enabled.
BroadcastEnabled(enabled) ==
  /\ recorderEnabled' = enabled
  /\ UNCHANGED <<scrollTimer, lastScrollY, focusEl, focusPre, sent, emittedScrollY,
                 scanned>>

\* setBadge(true), broadcastEnabled(true), the response
StartRespond(f) ==
  /\ At(f, "start", "respond")
  /\ handlers' = Finished(f)
  /\ lastOp' = Op("start_done",
                  [kind |-> "started", episodeId |-> f.episodeId,
                   stepCount |-> 0, lastMessage |-> "Recording started."])
  /\ BroadcastEnabled(TRUE)
  /\ UNCHANGED windowVars
  /\ UNCHANGED <<settings, episodes, steps, timers, episodeCount, eventCount, opCount>>

----------------------------------------------------------------------------
\* RECORDER_STOP -> stopRecording()

\* const st = await getSettings(); if (!st?.isRecording) return st || {};
StopGetSettings ==
  /\ IF ~settings.isRecording
       THEN /\ lastOp' = Op("stop_noop", [kind |-> "status", st |-> settings])
            /\ UNCHANGED handlers
       ELSE /\ CanSuspend
            /\ handlers' = Started(
                 [type |-> "stop", pc |-> "set_settings", st |-> settings])
            /\ lastOp' = Quiet
  /\ UNCHANGED <<windowVars, pageVars>>
  /\ UNCHANGED <<settings, episodes, steps, timers, episodeCount, eventCount>>

StopSetSettings(f) ==
  /\ At(f, "stop", "set_settings")
  /\ settings' = StoppedSettings(f.st)
  /\ handlers' = Moved(f, [f EXCEPT !.pc = "respond"])
  /\ lastOp' = Quiet
  /\ UNCHANGED <<windowVars, pageVars>>
  /\ UNCHANGED <<episodes, steps, timers, episodeCount, eventCount, opCount>>

\* setBadge(false), broadcastEnabled(false), return await getSettings()
StopRespond(f) ==
  /\ At(f, "stop", "respond")
  /\ handlers' = Finished(f)
  /\ lastOp' = Op("stop_done", [kind |-> "status", st |-> settings])
  /\ BroadcastEnabled(FALSE)
  /\ UNCHANGED windowVars
  /\ UNCHANGED <<settings, episodes, steps, timers, episodeCount, eventCount, opCount>>

----------------------------------------------------------------------------
\* RECORDER_CLEAR -> clearAll(), then getSettings() for the response

\* const st = await getSettings(); if (st?.episodeId) ...
ClearGetSettings ==
  /\ CanSuspend
  /\ handlers' = Started(
       [type |-> "clear",
        pc |-> IF settings.episodeId # NoEpisode THEN "get_steps" ELSE "set_settings",
        st |-> settings, todo |-> <<>>])
  /\ lastOp' = Quiet
  /\ UNCHANGED <<windowVars, pageVars>>
  /\ UNCHANGED <<settings, episodes, steps, timers, episodeCount, eventCount>>

\* const steps = await idbGetStepsForEpisode(st.episodeId)
ClearGetSteps(f) ==
  /\ At(f, "clear", "get_steps")
  /\ LET rows == GetStepsForEpisode(steps, f.st.episodeId) IN
       handlers' = Moved(f,
         [f EXCEPT
            !.pc = IF rows = <<>> THEN "delete_episode" ELSE "delete_steps",
            !.todo = [i \in 1..Len(rows) |->
                        StepKey(rows[i].episode_id, rows[i].step_number)]])
  /\ lastOp' = Quiet
  /\ UNCHANGED <<windowVars, pageVars>>
  /\ UNCHANGED <<settings, episodes, steps, timers, episodeCount, eventCount, opCount>>

\* for (const s of steps) await idbDelete("steps", s.step_key)
ClearDeleteStep(f) ==
  /\ At(f, "clear", "delete_steps")
  /\ LET todo == f.todo IN
       /\ steps' = DeleteStep(steps, Head(todo))
       /\ handlers' = Moved(f,
            [f EXCEPT
               !.pc = IF Tail(todo) = <<>> THEN "delete_episode" ELSE "delete_steps",
               !.todo = Tail(todo)])
  /\ lastOp' = Quiet
  /\ UNCHANGED <<windowVars, pageVars>>
  /\ UNCHANGED <<settings, episodes, timers, episodeCount, eventCount, opCount>>

\* await idbDelete("episodes", st.episodeId)
ClearDeleteEpisode(f) ==
  /\ At(f, "clear", "delete_episode")
  /\ episodes' = episodes \ {f.st.episodeId}
  /\ handlers' = Moved(f, [f EXCEPT !.pc = "set_settings"])
  /\ lastOp' = Quiet
  /\ UNCHANGED <<windowVars, pageVars>>
  /\ UNCHANGED <<settings, steps, timers, episodeCount, eventCount, opCount>>

ClearSetSettings(f) ==
  /\ At(f, "clear", "set_settings")
  /\ settings' = ClearedSettings(f.st)
  /\ handlers' = Moved(f, [f EXCEPT !.pc = "respond"])
  /\ lastOp' = Quiet
  /\ UNCHANGED <<windowVars, pageVars>>
  /\ UNCHANGED <<episodes, steps, timers, episodeCount, eventCount, opCount>>

\* const resp = await getSettings(); sendResponse(resp)
ClearRespond(f) ==
  /\ At(f, "clear", "respond")
  /\ handlers' = Finished(f)
  /\ lastOp' = Op("clear_done", [kind |-> "status", st |-> settings])
  /\ UNCHANGED <<windowVars, pageVars>>
  /\ UNCHANGED <<settings, episodes, steps, timers, episodeCount, eventCount, opCount>>

----------------------------------------------------------------------------
\* RECORDER_SET_OPTIONS -> setOptions(msg.options)

SetOptionsGetSettings(options) ==
  /\ CanSuspend
  /\ handlers' = Started(
       [type |-> "set_options", pc |-> "set_settings", st |-> settings,
        options |-> options])
  /\ lastOp' = Quiet
  /\ UNCHANGED <<windowVars, pageVars>>
  /\ UNCHANGED <<settings, episodes, steps, timers, episodeCount, eventCount>>

SetOptionsSetSettings(f) ==
  /\ At(f, "set_options", "set_settings")
  /\ settings' = OptionsSettings(f.st, f.options)
  /\ handlers' = Moved(f, [f EXCEPT !.pc = "respond"])
  /\ lastOp' = Quiet
  /\ UNCHANGED <<windowVars, pageVars>>
  /\ UNCHANGED <<episodes, steps, timers, episodeCount, eventCount, opCount>>

\* return await getSettings()
SetOptionsRespond(f) ==
  /\ At(f, "set_options", "respond")
  /\ handlers' = Finished(f)
  /\ lastOp' = Op("set_options_done", [kind |-> "status", st |-> settings])
  /\ UNCHANGED <<windowVars, pageVars>>
  /\ UNCHANGED <<settings, episodes, steps, timers, episodeCount, eventCount, opCount>>

----------------------------------------------------------------------------
\* RECORDER_EXPORT

NoEpisodeResponse ==
  [kind |-> "export", episodeId |-> NoEpisode, stepCount |-> 0,
   lastMessage |-> "No episode."]

\* steps.map(s => s.step), stepCount: steps.length
ExportResponse(st2, rows) ==
  [kind |-> "export", episodeId |-> st2.episodeId, stepCount |-> Len(rows),
   lastMessage |-> "Exported.", options |-> st2.options,
   steps |-> [i \in 1..Len(rows) |-> rows[i].step]]

\* const st2 = await getSettings(); if (!st2?.episodeId) ...
ExportGetSettings ==
  /\ IF settings.episodeId = NoEpisode
       THEN /\ lastOp' = Op("export_done", NoEpisodeResponse)
            /\ UNCHANGED handlers
       ELSE /\ CanSuspend
            /\ handlers' = Started(
                 [type |-> "export", pc |-> "get_episode", st |-> settings,
                  found |-> FALSE])
            /\ lastOp' = Quiet
  /\ UNCHANGED <<windowVars, pageVars>>
  /\ UNCHANGED <<settings, episodes, steps, timers, episodeCount, eventCount>>

\* const ep = await idbGet("episodes", st2.episodeId)
ExportGetEpisode(f) ==
  /\ At(f, "export", "get_episode")
  /\ handlers' = Moved(f,
       [f EXCEPT !.pc = "get_steps",
                           !.found = f.st.episodeId \in episodes])
  /\ lastOp' = Quiet
  /\ UNCHANGED <<windowVars, pageVars>>
  /\ UNCHANGED <<settings, episodes, steps, timers, episodeCount, eventCount, opCount>>

\* const steps = await idbGetStepsForEpisode(...); reading ep.episode_id of a
\* missing record throws, and the listener's catch answers with the error.
ExportGetSteps(f) ==
  /\ At(f, "export", "get_steps")
  /\ handlers' = Finished(f)
  /\ lastOp' = Op("export_done",
       IF f.found
         THEN ExportResponse(f.st,
                             GetStepsForEpisode(steps, f.st.episodeId))
         ELSE [kind |-> "error"])
  /\ UNCHANGED <<windowVars, pageVars>>
  /\ UNCHANGED <<settings, episodes, steps, timers, episodeCount, eventCount, opCount>>

----------------------------------------------------------------------------
\* RECORDER_EVENT with event.kind = "step"

ActionTypes == {"click"}

\* const st = await getSettings(); the guards; stepNumber = st.stepCount || 0;
\* stepId = uuid()
EventGetSettings(hasTab, actionType) ==
  /\ IF ~EventAccepted(settings, hasTab)
       THEN /\ lastOp' = Op("event_ignored", NoResponse)
            /\ UNCHANGED <<handlers, eventCount>>
       ELSE /\ eventCount < MaxEvents /\ CanSuspend
            /\ eventCount' = eventCount + 1
            /\ handlers' = Started(
                 [type |-> "event", pc |-> "put_step", st |-> settings,
                  stepNumber |-> settings.stepCount, stepId |-> eventCount + 1,
                  action |-> actionType, page_info |-> PageInfo(scrollY)])
            /\ lastOp' = Quiet
  /\ UNCHANGED <<windowVars, pageVars>>
  /\ UNCHANGED <<settings, episodes, steps, timers, episodeCount>>

\* await chrome.tabs.get(tabId) rejects (the tab is gone): the listener's catch
\* answers { ok: false, error }.
EventTabGone(f) ==
  /\ At(f, "event", "put_step")
  /\ handlers' = Finished(f)
  /\ lastOp' = Op("event_error", [kind |-> "error"])
  /\ UNCHANGED <<windowVars, pageVars>>
  /\ UNCHANGED <<settings, episodes, steps, timers, episodeCount, eventCount, opCount>>

AfterSetTimeoutAwaited(f) == [f EXCEPT !.pc = "await_post_capture"]

\* setTimeout(callback, delayMs) only schedules the callback: the handler goes
\* straight on to its setSettings.
AfterSetTimeout(f) == [f EXCEPT !.pc = "set_settings"]

\* The tab lookup and the optional screenshot, idbPut("steps", pending row),
\* then setTimeout(...) before the handler suspends in setSettings.
EventPutStep(f) ==
  /\ At(f, "event", "put_step")
  /\ \E shotOk \in BOOLEAN :
       LET pre == PreObservation(f.st, tab, f.page_info, shotOk)
       IN /\ f.st.options.captureScreenshots \/ shotOk
          /\ steps' = PutStep(steps,
               PendingRow(f.st.episodeId, f.stepNumber, f.stepId, pre, f.action))
          /\ timers' = timers \cup
               {[stepId |-> f.stepId, episodeId |-> f.st.episodeId,
                 stepNumber |-> f.stepNumber, pre |-> pre]}
          /\ handlers' = Moved(f, AfterSetTimeout(f))
  /\ lastOp' = Quiet
  /\ UNCHANGED <<windowVars, pageVars>>
  /\ UNCHANGED <<settings, episodes, episodeCount, eventCount, opCount>>

\* await setSettings({ ...st, stepCount: stepNumber + 1, ... }); sendResponse
EventSetSettings(f) ==
  /\ At(f, "event", "set_settings")
  /\ settings' = RecordedSettings(f.st, f.stepNumber)
  /\ handlers' = Finished(f)
  /\ lastOp' = Op("event_done",
                  [kind |-> "recorded", stepNumber |-> f.stepNumber])
  /\ UNCHANGED <<windowVars, pageVars>>
  /\ UNCHANGED <<episodes, steps, timers, episodeCount, eventCount, opCount>>

----------------------------------------------------------------------------
\* The post-capture callback given to setTimeout.

\* const st3 = await getSettings(); the episode guard
TimerFire(t) ==
  /\ t \in timers
  /\ timers' = timers \ {t}
  /\ IF ~TimerGuard(settings, t.episodeId)
       THEN /\ lastOp' = Op("timer_abandoned", NoResponse)
            /\ UNCHANGED handlers
       ELSE /\ CanSuspend
            /\ handlers' = Started(
                 [type |-> "timer", pc |-> "get_row", episodeId |-> t.episodeId,
                  stepNumber |-> t.stepNumber, stepId |-> t.stepId,
                  pre |-> t.pre, st3 |-> settings])
            /\ lastOp' = Quiet
  /\ UNCHANGED <<windowVars, pageVars>>
  /\ UNCHANGED <<settings, episodes, steps, episodeCount, eventCount, opCount>>

\* await chrome.tabs.get(tabId) rejects inside the callback: nothing catches it.
TimerTabGone(f) ==
  /\ At(f, "timer", "get_row")
  /\ handlers' = Finished(f)
  /\ lastOp' = Op("timer_error", [kind |-> "error"])
  /\ UNCHANGED <<windowVars, pageVars>>
  /\ UNCHANGED <<settings, episodes, steps, timers, episodeCount, eventCount, opCount>>

\* requestPostState, the tab lookup, the optional screenshot, then
\* const row = await idbGet("steps", key); if (!row) return; row.step.post = ...
TimerGetRow(f) ==
  /\ At(f, "timer", "get_row")
  /\ LET key == StepKey(f.episodeId, f.stepNumber)
     IN IF key \notin DOMAIN steps
          THEN /\ handlers' = Finished(f)
               /\ lastOp' = Op("timer_no_row", NoResponse)
          ELSE \E pageOk \in BOOLEAN, shotOk \in BOOLEAN :
                 LET postFromContent ==
                       RequestPostState(pageOk, f.st3.options.captureDomState, scrollY)
                     post == PostObservation(f.st3, postFromContent, tab, shotOk)
                 IN /\ f.st3.options.captureScreenshots \/ shotOk
                    /\ handlers' = Moved(f,
                         [type |-> "timer", pc |-> "put_row",
                          episodeId |-> f.episodeId, stepNumber |-> f.stepNumber,
                          stepId |-> f.stepId, pre |-> f.pre, st3 |-> f.st3,
                          row |-> FinalizedRow(steps[key], post,
                                               Derived(f.pre, post))])
                    /\ lastOp' = Quiet
  /\ UNCHANGED <<windowVars, pageVars>>
  /\ UNCHANGED <<settings, episodes, steps, timers, episodeCount, eventCount, opCount>>

\* await idbPut("steps", row)
TimerPutRow(f) ==
  /\ At(f, "timer", "put_row")
  /\ steps' = PutStep(steps, f.row)
  /\ handlers' = Finished(f)
  /\ lastOp' = Op("timer_done", NoResponse)
  /\ UNCHANGED <<windowVars, pageVars>>
  /\ UNCHANGED <<settings, episodes, timers, episodeCount, eventCount, opCount>>

----------------------------------------------------------------------------
\* chrome.webNavigation.onCommitted

NavigationUrls == {"https://example.test/"}

\* const st = await getSettings(); if (!st?.isRecording) return;
\* if (details.frameId !== 0) return;
NavigationGetSettings(frameId, url) ==
  /\ IF ~settings.isRecording \/ frameId # 0
       THEN /\ lastOp' = Op("navigation_ignored", NoResponse)
            /\ UNCHANGED handlers
       ELSE /\ CanSuspend
            /\ handlers' = Started(
                 [type |-> "navigation", pc |-> "set_settings", st |-> settings,
                  url |-> url])
            /\ lastOp' = Quiet
  /\ UNCHANGED <<windowVars, pageVars>>
  /\ UNCHANGED <<settings, episodes, steps, timers, episodeCount, eventCount>>

NavigationSetSettings(f) ==
  /\ At(f, "navigation", "set_settings")
  /\ settings' = NavigatedSettings(f.st, f.url)
  /\ handlers' = Finished(f)
  /\ lastOp' = Op("navigation_done", NoResponse)
  /\ UNCHANGED <<windowVars, pageVars>>
  /\ UNCHANGED <<episodes, steps, timers, episodeCount, eventCount, opCount>>

----------------------------------------------------------------------------
\* A message or notification arrives: its handler runs up to its first await
\* that touches a store.
Receive ==
  /\ opCount < MaxOps
  /\ opCount' = opCount + 1
  /\ \/ GetStatus
     \/ \E options \in OptionInputs : StartPutEpisode(options)
     \/ StopGetSettings
     \/ ClearGetSettings
     \/ \E options \in OptionInputs : SetOptionsGetSettings(options)
     \/ ExportGetSettings
     \/ \E hasTab \in BOOLEAN, actionType \in ActionTypes :
          EventGetSettings(hasTab, actionType)
     \/ \E frameId \in {0, 1}, url \in NavigationUrls :
          NavigationGetSettings(frameId, url)

Next ==
  \/ Receive
  \/ \E t \in timers : TimerFire(t)
  \/ \E f \in InFlight : StartGetSettings(f)
  \/ \E f \in InFlight : StartSetSettings(f)
  \/ \E f \in InFlight : StartRespond(f)
  \/ \E f \in InFlight : StopSetSettings(f)
  \/ \E f \in InFlight : StopRespond(f)
  \/ \E f \in InFlight : ClearGetSteps(f)
  \/ \E f \in InFlight : ClearDeleteStep(f)
  \/ \E f \in InFlight : ClearDeleteEpisode(f)
  \/ \E f \in InFlight : ClearSetSettings(f)
  \/ \E f \in InFlight : ClearRespond(f)
  \/ \E f \in InFlight : SetOptionsSetSettings(f)
  \/ \E f \in InFlight : SetOptionsRespond(f)
  \/ \E f \in InFlight : ExportGetEpisode(f)
  \/ \E f \in InFlight : ExportGetSteps(f)
  \/ \E f \in InFlight : EventTabGone(f)
  \/ \E f \in InFlight : EventPutStep(f)
  \/ \E f \in InFlight : EventSetSettings(f)
  \/ \E f \in InFlight : TimerTabGone(f)
  \/ \E f \in InFlight : TimerGetRow(f)
  \/ \E f \in InFlight : TimerPutRow(f)
  \/ \E f \in InFlight : NavigationSetSettings(f)

Spec == Init /\ [][Next]_vars

\* The same handlers when the coordinator is handed one message at a time: a
\* message arrives and a timer fires only while no handler is suspended.
SeqNext ==
  \/ handlers = EmptyBag /\ Receive
  \/ handlers = EmptyBag /\ \E t \in timers : TimerFire(t)
  \/ \E f \in InFlight : StartGetSettings(f)
  \/ \E f \in InFlight : StartSetSettings(f)
  \/ \E f \in InFlight : StartRespond(f)
  \/ \E f \in InFlight : StopSetSettings(f)
  \/ \E f \in InFlight : StopRespond(f)
  \/ \E f \in InFlight : ClearGetSteps(f)
  \/ \E f \in InFlight : ClearDeleteStep(f)
  \/ \E f \in InFlight : ClearDeleteEpisode(f)
  \/ \E f \in InFlight : ClearSetSettings(f)
  \/ \E f \in InFlight : ClearRespond(f)
  \/ \E f \in InFlight : SetOptionsSetSettings(f)
  \/ \E f \in InFlight : SetOptionsRespond(f)
  \/ \E f \in InFlight : ExportGetEpisode(f)
  \/ \E f \in InFlight : ExportGetSteps(f)
  \/ \E f \in InFlight : EventTabGone(f)
  \/ \E f \in InFlight : EventPutStep(f)
  \/ \E f \in InFlight : EventSetSettings(f)
  \/ \E f \in InFlight : TimerTabGone(f)
  \/ \E f \in InFlight : TimerGetRow(f)
  \/ \E f \in InFlight : TimerPutRow(f)
  \/ \E f \in InFlight : NavigationSetSettings(f)

SeqSpec == Init /\ [][SeqNext]_vars

----------------------------------------------------------------------------
\* The page context (content script): the elements an event is about.

\* String attributes are sequences of pieces, so that includes() and
\* toLowerCase() are computed on them; <<>> is the attribute that is absent.
Lower(piece) ==
  CASE piece = "Password" -> "password"
    [] piece = "Passcode" -> "passcode"
    [] piece = "CC-" -> "cc-"
    [] OTHER -> piece

\* s.toLowerCase()
ToLowerCase(s) == [i \in 1..Len(s) |-> Lower(s[i])]

\* s.includes(piece)
Includes(s, piece) == \E i \in 1..Len(s) : s[i] = piece

\* An element: tag, the attributes the script reads, its text, and the top-left
\* corner of its bounding rectangle.  value is el.value, "" until typed.
Element(tag, type, name, autocomplete, aria, placeholder) ==
  [ tag |-> tag, type |-> type, name |-> name, autocomplete |-> autocomplete,
    aria |-> aria, placeholder |-> placeholder, text |-> "", value |-> "",
    visible |-> TRUE, x |-> 0, y |-> 0 ]

\* The form fields of the modelled documents.
Fields ==
  { Element("input", <<"password">>, <<>>, <<>>, "", ""),
    Element("input", <<"Password">>, <<"pw">>, <<>>, "Your password", ""),
    Element("input", <<"text">>, <<"user_", "Passcode">>, <<>>, "", "Code"),
    Element("textarea", <<>>, <<"pan">>, <<"cc-", "number">>, "", ""),
    Element("input", <<"text">>, <<"q">>, <<>>, "", "") }

\* A button of the document.
Button ==
  [Element("button", <<>>, <<>>, <<>>, "", "") EXCEPT !.text = "Submit"]

\* What the user may type into a field.
TypedValues == {"hunter2", "swordfish"}

\* The innerHeight and innerWidth of the window, the width and height of every
\* element's rectangle.
InnerHeight == 3
InnerWidth == 3
ElementSize == 1

\* accessibleName(el): aria-label, then (no aria-labelledby, label, alt or title
\* in the modelled documents) for an input or textarea the placeholder and the
\* value if it is at most 80 long, then the text, then the tag.
AccessibleName(el) ==
  IF el.aria # "" THEN el.aria
  ELSE IF el.tag \in {"input", "textarea"} /\ el.placeholder # "" THEN el.placeholder
  ELSE IF el.tag \in {"input", "textarea"} /\ el.value # "" /\ Len(el.value) <= 80
    THEN el.value
  ELSE IF el.text # "" THEN el.text
  ELSE el.tag

\* safeAttrs(el): the listed attributes that are present.
SafeAttrs(el) ==
  [ name |-> el.name, type |-> el.type, aria_label |-> el.aria,
    placeholder |-> el.placeholder ]

\* elementRef(el), without the selectors, the nearby text (an input has none)
\* and the layout.
ElementRef(el) ==
  [ dom |-> [ tag |-> el.tag, attrs |-> SafeAttrs(el), name |-> AccessibleName(el) ] ]

IsSensitiveInputByTypeOnly(el) ==
  el.tag \in {"input", "textarea"} /\ ToLowerCase(el.type) = <<"password">>

\* isSensitiveInput(el)
IsSensitiveInput(el) ==
  /\ el.tag \in {"input", "textarea"}
  /\ \/ ToLowerCase(el.type) = <<"password">>
     \/ Includes(ToLowerCase(el.name), "password")
     \/ Includes(ToLowerCase(el.name), "passcode")
     \/ Includes(ToLowerCase(el.autocomplete), "cc-")
     \/ Includes(ToLowerCase(el.autocomplete), "credit")
     \/ Includes(ToLowerCase(el.autocomplete), "card")

----------------------------------------------------------------------------
\* listInteractables(limit)

\* The largest limit of a scan (the script scans with 60).
ScanLimit == 2
\* Elements of a scanned document.
MaxDom == 3

\* r.bottom >= 0 && r.right >= 0 && r.top <= innerHeight && r.left <= innerWidth
InViewport(el) ==
  /\ el.y + ElementSize >= 0 /\ el.x + ElementSize >= 0
  /\ el.y <= InnerHeight /\ el.x <= InnerWidth

\* isVisible(el) and a non-empty name: the element becomes an item.
Item(el) ==
  [ tag |-> el.tag, label |-> AccessibleName(el),
    bbox |-> [x |-> el.x, y |-> el.y], in_viewport |-> InViewport(el) ]

CompareByPosition(a, b) ==
  IF a.bbox.y - b.bbox.y # 0 THEN a.bbox.y - b.bbox.y ELSE a.bbox.x - b.bbox.x

\* The comparator given to items.sort.
Compare(a, b) ==
  IF a.in_viewport # b.in_viewport
    THEN (IF a.in_viewport THEN -1 ELSE 1)
    ELSE IF a.bbox.y - b.bbox.y # 0 THEN a.bbox.y - b.bbox.y
         ELSE a.bbox.x - b.bbox.x

RECURSIVE Collect(_, _)
\* The loop over the candidates, in document order: skip the invisible, stop
\* once limit * 2 items are collected.
Collect(dom, limit) ==
  IF dom = <<>> THEN <<>>
  ELSE LET before == Collect(SubSeq(dom, 1, Len(dom) - 1), limit)
           el == dom[Len(dom)]
       IN IF Len(before) >= limit * 2 \/ ~el.visible THEN before
          ELSE Append(before, Item(el))

\* One item put into a sorted list behind everything that does not compare
\* greater: the sort is stable.
Insert(sorted, it) ==
  LET n == Cardinality({i \in 1..Len(sorted) : Compare(sorted[i], it) <= 0})
  IN SubSeq(sorted, 1, n) \o <<it>> \o SubSeq(sorted, n + 1, Len(sorted))

RECURSIVE SortItems(_)
\* items.sort(comparator)
SortItems(items) ==
  IF items = <<>> THEN <<>>
  ELSE Insert(SortItems(SubSeq(items, 1, Len(items) - 1)), items[Len(items)])

\* listInteractables(limit): sort, truncate, render.
ListInteractables(dom, limit) ==
  LET items == SortItems(Collect(dom, limit))
      trimmed == SubSeq(items, 1, IF Len(items) < limit THEN Len(items) ELSE limit)
  IN [ llm_representation |-> [i \in 1..Len(trimmed) |-> <<i, trimmed[i].label>>],
       selector_map |-> trimmed,
       elements_count |-> Len(trimmed) ]

\* buildStateSummary({targetEl, captureDomState}) over a document dom.
BuildStateSummary(dom, targetEl, captureDomState) ==
  [ dom_state |-> IF captureDomState THEN ListInteractables(dom, ScanLimit)
                  ELSE EmptyDomState,
    interacted_element |-> IF targetEl = NoElement THEN NoElement
                           ELSE ElementRef(targetEl),
    url |-> tab.url, title |-> tab.title, page_info |-> PageInfo(scrollY) ]

----------------------------------------------------------------------------
\* The listeners of the page context.

\* Action events handed to sendMessage and not yet delivered.
MaxSent == 1
\* The quiet window of the scroll debounce, in ms.
ScrollDebounceMs == 250

\* { type: "RECORDER_EVENT", event: { kind: "step", action, pre, ... } }
EventMessage(act, pre) ==
  [ type |-> "RECORDER_EVENT", kind |-> "step", action |-> act, pre |-> pre ]

SendEventUnchecked(payload) == Append(sent, payload)

\* sendEvent(payload): what sent is after it.
SendEvent(payload) == IF ~recorderEnabled THEN sent ELSE Append(sent, payload)

\* RECORDER_SET_ENABLED: __recorderEnabled = !!msg.enabled
SetEnabled(enabled) ==
  /\ recorderEnabled' = enabled
  /\ UNCHANGED <<scrollTimer, lastScrollY, focusEl, focusPre, sent, emittedScrollY, scanned>>
  /\ UNCHANGED <<coordVars, windowVars>>

\* onPointerDown(e), button 0, on element el.
OnPointerDown(el) ==
  /\ Len(sent) < MaxSent
  /\ IF ~recorderEnabled THEN UNCHANGED sent
     ELSE sent' = SendEvent(EventMessage(
            [type |-> "click", target_ref |-> ElementRef(el)],
            BuildStateSummary(<<el>>, el, TRUE)))
  /\ UNCHANGED <<recorderEnabled, scrollTimer, lastScrollY, focusEl, focusPre, emittedScrollY,
                 scanned>>
  /\ UNCHANGED <<coordVars, windowVars>>

\* The window scrolls to y and onScroll(e) runs: the debounce timer is set anew.
OnScroll(y) ==
  /\ y # scrollY
  /\ scrollY' = y
  /\ IF ~recorderEnabled THEN UNCHANGED scrollTimer
     ELSE scrollTimer' = [ms |-> ScrollDebounceMs]
  /\ UNCHANGED <<recorderEnabled, lastScrollY, focusEl, focusPre, sent, emittedScrollY, scanned>>
  /\ UNCHANGED <<coordVars, tab, document, scanLimit>>

\* ms of time pass while the debounce timer runs, or the time up to its expiry
\* if that is less.
Elapse(ms) ==
  /\ scrollTimer # NoTimer
  /\ scrollTimer.ms > 0
  /\ scrollTimer' = [ms |-> IF ms >= scrollTimer.ms THEN 0 ELSE scrollTimer.ms - ms]
  /\ UNCHANGED <<recorderEnabled, lastScrollY, focusEl, focusPre, sent, emittedScrollY, scanned>>
  /\ UNCHANGED <<coordVars, windowVars>>

\* The debounce callback.  (__scrollTimer keeps the id of the timer that ran;
\* clearing it later does nothing, as with none.)
ScrollTimerFires ==
  /\ scrollTimer = [ms |-> 0]
  /\ Len(sent) < MaxSent
  /\ LET dy == scrollY - lastScrollY
     IN sent' = SendEvent(EventMessage(
                  [type |-> "scroll", dx |-> 0, dy |-> dy],
                  BuildStateSummary(<<>>, NoElement, FALSE)))
  /\ lastScrollY' = scrollY
  /\ scrollTimer' = NoTimer
  /\ emittedScrollY' = IF sent' # sent THEN scrollY ELSE emittedScrollY
  /\ UNCHANGED <<recorderEnabled, focusEl, focusPre, scanned>>
  /\ UNCHANGED <<coordVars, windowVars>>

\* onFocusIn(e) on element el.
OnFocusIn(el) ==
  /\ recorderEnabled
  /\ el.tag \in {"input", "textarea", "select"}
  /\ focusEl' = el
  /\ focusPre' = BuildStateSummary(<<el>>, el, TRUE)
  /\ UNCHANGED <<recorderEnabled, scrollTimer, lastScrollY, sent, emittedScrollY, scanned>>
  /\ UNCHANGED <<coordVars, windowVars>>

\* The value field of the input action.
InputValue(target) ==
  IF IsSensitiveInput(target) THEN "<redacted>" ELSE target.value

ChangeEventFresh(el, value) ==
  LET target == [el EXCEPT !.value = value]
  IN EventMessage(
       [type |-> "input", target_ref |-> ElementRef(target),
        value |-> InputValue(target)],
       BuildStateSummary(<<target>>, target, TRUE))

\* The message onChange(e) builds when the user has typed value into field el.
ChangeEvent(el, value) ==
  LET target == [el EXCEPT !.value = value]
      pre == IF focusEl = el /\ focusPre # NoSummary THEN focusPre
             ELSE BuildStateSummary(<<target>>, target, TRUE)
  IN EventMessage(
       [type |-> "input", target_ref |-> ElementRef(target),
        value |-> InputValue(target)],
       pre)

\* onChange(e) on field el, after the user typed value into it.
OnChange(el, value) ==
  /\ Len(sent) < MaxSent
  /\ IF ~recorderEnabled THEN UNCHANGED <<sent, focusEl, focusPre>>
     ELSE /\ sent' = SendEvent(ChangeEvent(el, value))
          /\ focusEl' = NoElement
          /\ focusPre' = NoSummary
  /\ UNCHANGED <<recorderEnabled, scrollTimer, lastScrollY, emittedScrollY, scanned>>
  /\ UNCHANGED <<coordVars, windowVars>>

\* onKeyDown(e) for the Enter key, no element under it.
OnKeyDown ==
  /\ Len(sent) < MaxSent
  /\ IF ~recorderEnabled THEN UNCHANGED sent
     ELSE sent' = SendEvent(EventMessage(
            [type |-> "key", keys |-> <<"Enter">>, target_ref |-> NoElement],
            BuildStateSummary(<<>>, NoElement, FALSE)))
  /\ UNCHANGED <<recorderEnabled, scrollTimer, lastScrollY, focusEl, focusPre, emittedScrollY,
                 scanned>>
  /\ UNCHANGED <<coordVars, windowVars>>

\* chrome.runtime.sendMessage has delivered the oldest message.
Deliver ==
  /\ sent # <<>>
  /\ sent' = Tail(sent)
  /\ UNCHANGED <<recorderEnabled, scrollTimer, lastScrollY, focusEl, focusPre,
                 emittedScrollY, scanned>>
  /\ UNCHANGED <<coordVars, windowVars>>

PageNext ==
  \/ \E enabled \in BOOLEAN : SetEnabled(enabled)
  \/ \E el \in Fields \cup {Button} : OnPointerDown(el)
  \/ \E y \in ScrollPositions : OnScroll(y)
  \/ \E ms \in {100, ScrollDebounceMs} : Elapse(ms)
  \/ ScrollTimerFires
  \/ \E el \in Fields : OnFocusIn(el)
  \/ \E el \in Fields, value \in TypedValues : OnChange(el, value)
  \/ OnKeyDown
  \/ Deliver

\* The page context alone: the coordinator receives nothing.
PageSpec == Init /\ [][PageNext]_vars

----------------------------------------------------------------------------
\* Recording while the page in the sender tab changes.

\* The tab shows another page: a navigation, or the page sets its title.
TabChanges(t) ==
  /\ t # tab
  /\ tab' = t
  /\ UNCHANGED <<coordVars, scrollY, document, scanLimit, pageVars>>

\* One RECORDER_START, with the screenshots switched off, and after it action
\* events from the tab are all the coordinator receives.
ReceiveRecording ==
  /\ opCount < MaxOps
  /\ opCount' = opCount + 1
  /\ \/ episodeCount = 0 /\ StartPutEpisode([captureScreenshots |-> FALSE])
     \/ \E actionType \in ActionTypes :
          settings.isRecording /\ EventGetSettings(TRUE, actionType)

\* The page changes in reaction to what the user does on it: after the first
\* accepted action.
ObserveNext ==
  \/ ReceiveRecording
  \/ \E t \in TabStates : eventCount > 0 /\ TabChanges(t)
  \/ \E y \in ScrollPositions : eventCount > 0 /\ OnScroll(y)
  \/ \E t \in timers : TimerFire(t)
  \/ \E f \in InFlight : StartGetSettings(f)
  \/ \E f \in InFlight : StartSetSettings(f)
  \/ \E f \in InFlight : StartRespond(f)
  \/ \E f \in InFlight : EventTabGone(f)
  \/ \E f \in InFlight : EventPutStep(f)
  \/ \E f \in InFlight : EventSetSettings(f)
  \/ \E f \in InFlight : TimerTabGone(f)
  \/ \E f \in InFlight : TimerGetRow(f)
  \/ \E f \in InFlight : TimerPutRow(f)

\* The coordinator recording steps of a page that navigates and scrolls.
ObserveSpec == Init /\ [][ObserveNext]_vars

----------------------------------------------------------------------------
\* Recording while the popup switches the capture options.

\* msg.options of RECORDER_SET_OPTIONS: one checkbox of the popup, on or off.
OptionSwitches ==
  { [captureDomState |-> b] : b \in BOOLEAN }
  \cup { [captureScreenshots |-> b] : b \in BOOLEAN }

\* One RECORDER_START, then action events from the tab and RECORDER_SET_OPTIONS.
ReceiveSwitching ==
  /\ opCount < MaxOps
  /\ opCount' = opCount + 1
  /\ \/ \E options \in OptionInputs : episodeCount = 0 /\ StartPutEpisode(options)
     \/ \E options \in OptionSwitches :
          episodeCount > 0 /\ SetOptionsGetSettings(options)
     \/ \E actionType \in ActionTypes :
          settings.isRecording /\ EventGetSettings(TRUE, actionType)

OptionsNext ==
  \/ ReceiveSwitching
  \/ \E t \in timers : TimerFire(t)
  \/ \E f \in InFlight : StartGetSettings(f)
  \/ \E f \in InFlight : StartSetSettings(f)
  \/ \E f \in InFlight : StartRespond(f)
  \/ \E f \in InFlight : SetOptionsSetSettings(f)
  \/ \E f \in InFlight : SetOptionsRespond(f)
  \/ \E f \in InFlight : EventTabGone(f)
  \/ \E f \in InFlight : EventPutStep(f)
  \/ \E f \in InFlight : EventSetSettings(f)
  \/ \E f \in InFlight : TimerTabGone(f)
  \/ \E f \in InFlight : TimerGetRow(f)
  \/ \E f \in InFlight : TimerPutRow(f)

\* The coordinator recording steps while the options are switched.
OptionsSpec == Init /\ [][OptionsNext]_vars

----------------------------------------------------------------------------
\* Recording with stops, the page and the tab lookup always answering.

\* One RECORDER_START, then action events from the tab and RECORDER_STOP.
ReceiveStopping ==
  /\ opCount < MaxOps
  /\ opCount' = opCount + 1
  /\ \/ \E options \in OptionInputs : episodeCount = 0 /\ StartPutEpisode(options)
     \/ episodeCount > 0 /\ StopGetSettings
     \/ \E actionType \in ActionTypes :
          episodeCount > 0 /\ EventGetSettings(TRUE, actionType)

FinalizeNext ==
  \/ ReceiveStopping
  \/ \E t \in timers : TimerFire(t)
  \/ \E f \in InFlight : StartGetSettings(f)
  \/ \E f \in InFlight : StartSetSettings(f)
  \/ \E f \in InFlight : StartRespond(f)
  \/ \E f \in InFlight : StopSetSettings(f)
  \/ \E f \in InFlight : StopRespond(f)
  \/ \E f \in InFlight : EventPutStep(f)
  \/ \E f \in InFlight : EventSetSettings(f)
  \/ \E f \in InFlight : TimerGetRow(f)
  \/ \E f \in InFlight : TimerPutRow(f)

\* Every pending storage request completes and every timer set fires: the
\* event loop of the service worker starves no task.
FinalizeSpec ==
  /\ Init /\ [][FinalizeNext]_vars
  /\ WF_vars(\E t \in timers : TimerFire(t))
  /\ WF_vars(\E f \in InFlight : StartGetSettings(f))
  /\ WF_vars(\E f \in InFlight : StartSetSettings(f))
  /\ WF_vars(\E f \in InFlight : StartRespond(f))
  /\ WF_vars(\E f \in InFlight : StopSetSettings(f))
  /\ WF_vars(\E f \in InFlight : StopRespond(f))
  /\ WF_vars(\E f \in InFlight : EventPutStep(f))
  /\ WF_vars(\E f \in InFlight : EventSetSettings(f))
  /\ WF_vars(\E f \in InFlight : TimerGetRow(f))
  /\ WF_vars(\E f \in InFlight : TimerPutRow(f))

----------------------------------------------------------------------------
\* Scans of documents.

\* The elements of the scanned documents: buttons labelled by their text, above
\* the viewport, inside it and below the fold, and one that is not displayed.
ScanElements ==
  { [Button EXCEPT !.text = text, !.x = x, !.y = y] :
      text \in {"Save", "Send"}, x \in {0, 1}, y \in {-2, 0, 1, 5} }
  \cup { [Button EXCEPT !.visible = FALSE] }

\* The documents: up to MaxDom elements in document order.
Doms == UNION { [1..n -> ScanElements] : n \in 0..MaxDom }

\* The page is parsed: dom is its document from then on.
Load(dom) ==
  /\ document = <<>> /\ scanLimit = 0
  /\ document' = dom
  /\ UNCHANGED <<coordVars, tab, scrollY, scanLimit, pageVars>>

\* listInteractables(limit) runs on the document dom.
Scan(dom, limit) ==
  /\ scanned' = ListInteractables(dom, limit)
  /\ scanLimit' = limit
  /\ UNCHANGED <<recorderEnabled, scrollTimer, lastScrollY, focusEl, focusPre, sent,
                 emittedScrollY>>
  /\ UNCHANGED <<coordVars, tab, scrollY, document>>

ScanNext ==
  \/ \E dom \in Doms : Load(dom)
  \/ \E limit \in 1..ScanLimit : Scan(document, limit)

ScanSpec == Init /\ [][ScanNext]_vars

----------------------------------------------------------------------------
\* Steps of the behaviour, recognised from the frames.

EventFrames == {f \in InFlight : f.type = "event"}

\* The step in which handler f ends.
Ends(f) == f \in InFlight /\ handlers' = Finished(f)
\* A step of handler f: it ends or moves on to its next await.
Leaves(f) == CopiesIn(f, handlers') < CopiesIn(f, handlers)
\* The step in which handler f goes from pc to the next await.
Goes(f, type, from, to) ==
  At(f, type, from) /\ handlers' = Moved(f, [f EXCEPT !.pc = to])

\* Every action event accepted so far that the state still knows of: by its
\* step_id, with the episode and the step_number it was given.
Accepted ==
  {[stepId |-> f.stepId, episodeId |-> f.st.episodeId, stepNumber |-> f.stepNumber] :
     f \in EventFrames}
  \cup {[stepId |-> t.stepId, episodeId |-> t.episodeId,
         stepNumber |-> t.stepNumber] : t \in timers}
  \cup {[stepId |-> steps[k].step.step_id, episodeId |-> steps[k].episode_id,
         stepNumber |-> steps[k].step_number] : k \in DOMAIN steps}

\* C1: within one episode no two accepted action events are given the same
\* step_number (so none puts its pending record over the record of another),
\* whatever the interleaving of the handlers.
C1_DistinctStepNumbers ==
  \A a, b \in Accepted :
    (a.stepId # b.stepId /\ a.episodeId = b.episodeId) => a.stepNumber # b.stepNumber

\* C2: with no handler suspended and an active episode, settings.stepCount is the
\* number of step records stored for that episode.
C2_StepCountMatchesStore ==
  (handlers = EmptyBag /\ settings.episodeId # NoEpisode)
    => settings.stepCount = Cardinality(KeysOfEpisode(steps, settings.episodeId))

\* What RECORDER_EXPORT answers when its three reads find the stores as they are
\* now (other handlers may be suspended meanwhile).
ExportNow ==
  IF settings.episodeId = NoEpisode THEN NoEpisodeResponse
  ELSE IF settings.episodeId \notin episodes THEN [kind |-> "error"]
  ELSE ExportResponse(settings, GetStepsForEpisode(steps, settings.episodeId))

\* C3: in every reachable state the steps export returns for the active episode
\* carry the step_numbers 0, 1, ..., n-1 in this order (strictly ascending, no
\* gap, no duplicate), pending steps included; n is the stepCount it reports.
C3_ExportContiguous ==
  (settings.episodeId # NoEpisode /\ settings.episodeId \in episodes)
    => \A i \in 1..Len(ExportNow.steps) : ExportNow.steps[i].step_number = i - 1

\* C4: a timer that fires while another episode than its own is the active one
\* ends at its guard: no step record, no settings field and no frame changes and
\* nothing is raised; and no timer callback ever writes a record of an episode
\* other than its own or the settings record.
C4_StaleTimerAbandons ==
  [][ /\ \A t \in timers :
           (t \notin timers' /\ settings.episodeId # t.episodeId)
             => /\ steps' = steps /\ settings' = settings /\ episodes' = episodes
                /\ handlers' = handlers
                /\ lastOp' = Op("timer_abandoned", NoResponse)
      /\ \A f \in InFlight :
           (f.type = "timer" /\ Leaves(f))
             => /\ settings' = settings
                /\ \A k \in (DOMAIN steps) \cup (DOMAIN steps') :
                     k[1] # f.episodeId
                       => k \in DOMAIN steps /\ k \in DOMAIN steps'
                          /\ steps'[k] = steps[k] ]_vars

\* Episode 1 was cleared, episode 2 is active, and a timer of episode 1 has just
\* fired and abandoned.
C4_Witness ==
  /\ lastOp = Op("timer_abandoned", NoResponse)
  /\ settings.episodeId = 2
  /\ 1 \notin episodes
  /\ KeysOfEpisode(steps, 2) = {}

IsRecordedMsg(m) == \E n \in 0..MaxOps : m = RecordedMsg(n)

\* C5: when set-options and an action event of the active episode overlap,
\* neither write loses the other's update: the event's write keeps the options
\* set-options stored before it, and the write of set-options keeps the stepCount
\* the event stored before it.
C5_NoLostUpdate ==
  [][ /\ \A f \in InFlight :
           (At(f, "event", "set_settings") /\ Ends(f)
              /\ f.st.episodeId = settings.episodeId
              /\ settings.lastMessage = "Options updated.")
             => settings'.options = settings.options
      /\ \A f \in InFlight :
           (Goes(f, "set_options", "set_settings", "respond")
              /\ f.st.episodeId = settings.episodeId
              /\ IsRecordedMsg(settings.lastMessage))
             => settings'.stepCount = settings.stepCount ]_vars

\* C6: an action event is accepted only while the settings say recording with an
\* episode; one that is not accepted is a no-op: no step record, no timer, no
\* frame, and the settings record as it was.
C6_IgnoredEventIsNoOp ==
  [][ /\ eventCount' # eventCount
           => settings.isRecording /\ settings.episodeId # NoEpisode
      /\ lastOp' = Op("event_ignored", NoResponse)
           => /\ settings' = settings /\ steps' = steps /\ timers' = timers
              /\ handlers' = handlers /\ episodes' = episodes ]_vars

\* Recording was stopped with the episode kept, and an action event has just
\* been ignored.
C6_Witness ==
  /\ lastOp = Op("event_ignored", NoResponse)
  /\ ~settings.isRecording
  /\ settings.episodeId # NoEpisode
  /\ settings.lastMessage = "Recording stopped."

C8_ClearIdempotent ==
  [][ \A f \in InFlight :
        (f.type = "clear" /\ f.st.lastMessage = "Cleared." /\ Leaves(f))
          => settings' = settings /\ steps' = steps /\ episodes' = episodes ]_vars

\* The second of two consecutive clears has answered, after an episode with a
\* step was cleared by the first.
C8_Witness ==
  /\ lastOp.op = "clear_done"
  /\ opCount = 4 /\ episodeCount = 1 /\ eventCount = 1
  /\ settings.lastMessage = "Cleared."
  /\ steps = <<>> /\ episodes = {}

\* C9: stop touches no step record and no episode record in any of its steps;
\* its one write stores the record it read with isRecording false and the
\* message replaced, so that episodeId, startedAt, stepCount and options are
\* those it read; when it reads isRecording false it writes nothing at all.
C9_StopFrame ==
  [][ /\ \A f \in InFlight :
           (f.type = "stop" /\ Leaves(f))
             => /\ steps' = steps /\ episodes' = episodes /\ timers' = timers
                /\ f.st.isRecording
                /\ f.pc = "respond" => settings' = settings
                /\ f.pc = "set_settings"
                     => /\ ~settings'.isRecording
                        /\ settings'.episodeId = f.st.episodeId
                        /\ settings'.startedAt = f.st.startedAt
                        /\ settings'.stepCount = f.st.stepCount
                        /\ settings'.options = f.st.options
                        /\ (settings = f.st =>
                              settings' = [settings EXCEPT
                                             !.isRecording = FALSE,
                                             !.lastMessage = "Recording stopped."])
      /\ lastOp'.op = "stop_noop"
           => /\ ~settings.isRecording
              /\ settings' = settings /\ steps' = steps /\ episodes' = episodes
              /\ handlers' = handlers /\ timers' = timers ]_vars

\* Stop has answered after an episode with a recorded step: the counter, the
\* episode and its step record are still there.
C9_Witness ==
  /\ lastOp.op = "stop_done"
  /\ ~settings.isRecording
  /\ settings.episodeId = 1 /\ settings.stepCount = 1
  /\ 1 \in episodes /\ StepKey(1, 0) \in DOMAIN steps

\* Every episode id the state mentions.
KnownEpisodeIds ==
  episodes \cup {settings.episodeId} \cup {k[1] : k \in DOMAIN steps}
  \cup {t.episodeId : t \in timers}
  \cup {f.st.episodeId : f \in {g \in InFlight : g.type \notin {"timer", "start"}}}
  \cup {f.episodeId : f \in {g \in InFlight : g.type \in {"timer", "start"}}}
  \cup {f.st3.episodeId : f \in {g \in InFlight : g.type = "timer"}}

\* C10: the episode id start generates is one no store, frame or timer held
\* before; its write sets isRecording, that id, stepCount 0 and the options it
\* read overridden field by field by the caller's, and the episode record of
\* that id is in the store then.
C10_StartSettings ==
  [][ /\ episodeCount' # episodeCount
           => /\ episodeCount' \notin KnownEpisodeIds
              /\ episodeCount' \in episodes'
      /\ \A f \in InFlight :
           Goes(f, "start", "set_settings", "respond")
             => /\ settings'.isRecording
                /\ settings'.episodeId = f.episodeId
                /\ f.episodeId \in episodes'
                /\ settings'.stepCount = 0
                /\ \A k \in {"captureScreenshots", "captureDomState"} :
                     settings'.options[k] =
                       IF k \in DOMAIN f.options THEN f.options[k]
                       ELSE f.st.options[k]
                /\ settings = f.st =>
                     \A k \in {"captureScreenshots", "captureDomState"} :
                       k \notin DOMAIN f.options
                         => settings'.options[k] = settings.options[k] ]_vars

\* A second start has written its settings: a new id, the counter back at 0, and
\* captureScreenshots still off as persisted before while the caller switched
\* captureDomState off.
C10_Witness ==
  /\ settings.isRecording /\ settings.episodeId = 2 /\ settings.stepCount = 0
  /\ 2 \in episodes
  /\ settings.options = [captureScreenshots |-> FALSE, captureDomState |-> FALSE]
  /\ \E f \in InFlight : At(f, "start", "respond") /\ f.episodeId = 2
                          /\ f.options = [captureDomState |-> FALSE]
                          /\ f.st.options.captureDomState

\* C11: handlers taken one at a time.  When start has answered, recording is on
\* with the episode of the answer and stepCount 0, and if the injection failed
\* (the settings carry the warning) the answer's lastMessage is the warning too.
C11_InjectionWarningReported ==
  lastOp.op = "start_done"
    => /\ settings.isRecording
       /\ settings.episodeId = lastOp.resp.episodeId
       /\ settings.stepCount = 0
       /\ settings.lastMessage = InjectWarning
            => lastOp.resp.lastMessage = InjectWarning

\* C12: a failure of the post-capture at timer expiry is never raised, and every
\* finalized step whose post-observation request failed (no page_info came
\* back) carries an error marker in its stored post.
C12_FailedPostCaptureMarked ==
  /\ lastOp.op # "timer_error"
  /\ \A k \in DOMAIN steps :
       (steps[k].step.post # NullObservation
          /\ steps[k].step.post.page_info = NullPageInfo)
         => "error" \in DOMAIN steps[k].step.post

\* C17: in every step of the behaviour each stored record has post and derived
\* both null or both non-null, a record that has them keeps having them, and
\* step_id, step_number, pre and action of a stored key do not change.
C17_PendingThenFinalized ==
  [][ /\ \A k \in DOMAIN steps' :
           (steps'[k].step.post = NullObservation)
             <=> (steps'[k].step.derived = NullDerived)
      /\ \A k \in (DOMAIN steps) \cap (DOMAIN steps') :
           /\ steps[k].step.post # NullObservation
                => steps'[k].step.post # NullObservation
           /\ steps'[k].step.step_id = steps[k].step.step_id
           /\ steps'[k].step.step_number = steps[k].step.step_number
           /\ steps'[k].step.pre = steps[k].step.pre
           /\ steps'[k].step.action = steps[k].step.action ]_vars

\* C20: the handler of an action event never waits for a post-capture: it is
\* only ever suspended before its idbPut or before its setSettings, and its next
\* step can be taken whatever timers are pending and whatever timer callbacks
\* are under way.
C20_PendingCreationNeverWaits ==
  \A f \in InFlight :
    f.type = "event"
      => /\ f.pc \in {"put_step", "set_settings"}
         /\ f.pc = "put_step" => ENABLED EventPutStep(f)
         /\ f.pc = "set_settings" => ENABLED EventSetSettings(f)

\* Step 1 has been recorded and answered while step 0 is still pending, its
\* timer not fired or its callback still awaiting the page.
C20_Witness ==
  /\ lastOp = Op("event_done", [kind |-> "recorded", stepNumber |-> 1])
  /\ settings.stepCount = 2
  /\ StepKey(settings.episodeId, 0) \in DOMAIN steps
  /\ StepKey(settings.episodeId, 1) \in DOMAIN steps
  /\ steps[StepKey(settings.episodeId, 0)].step.post = NullObservation
  /\ \/ \E t \in timers : t.stepNumber = 0
     \/ \E f \in InFlight : f.type = "timer" /\ f.stepNumber = 0

\* C13: an action event is handed to sendMessage only in a step that finds the
\* enabled flag true; in particular the debounce callback of a timer armed while
\* enabled, running after the flag was cleared, sends nothing.
C13_NoEmissionWhileDisabled ==
  [][ /\ Len(sent') > Len(sent) => recorderEnabled
      /\ (scrollTimer = [ms |-> 0] /\ scrollTimer' = NoTimer /\ ~recorderEnabled)
           => sent' = sent ]_vars

\* The debounce callback of a timer armed while enabled has run with the flag
\* cleared: the baseline moved, nothing was sent.
C13_Witness ==
  /\ ~recorderEnabled
  /\ scrollTimer = NoTimer
  /\ lastScrollY # emittedScrollY
  /\ sent = <<>>

\* C14: while enabled every scroll event sets the debounce timer anew to 250ms
\* and sends nothing itself; a scroll action is sent only by the callback of the
\* expired timer, one per expiry, and its dy is the scroll position then minus
\* the position when the previous scroll action was sent (at load, if none).
C14_ScrollDebounce ==
  [][ /\ scrollY' # scrollY
           => /\ sent' = sent
              /\ recorderEnabled => scrollTimer' = [ms |-> ScrollDebounceMs]
      /\ (Len(sent') > Len(sent) /\ sent'[Len(sent')].action.type = "scroll")
           => /\ scrollTimer = [ms |-> 0]
              /\ scrollTimer' = NoTimer
              /\ Len(sent') = Len(sent) + 1
              /\ sent'[Len(sent')].action.dy = scrollY - emittedScrollY ]_vars

\* The fields C15 calls sensitive.
SensitiveField(el) ==
  /\ el.tag \in {"input", "textarea"}
  /\ \/ el.type \in {<<"password">>, <<"Password">>}
     \/ \E piece \in {"password", "Password", "passcode", "Passcode"} :
          Includes(el.name, piece)
     \/ \E piece \in {"cc-", "CC-", "credit", "card"} :
          Includes(el.autocomplete, piece)

\* C15: the input action sent for a change of a sensitive input or textarea has
\* the value "<redacted>", whatever was typed.
C15_SensitiveValueRedacted ==
  [][ \A el \in Fields, value \in TypedValues :
        (OnChange(el, value) /\ recorderEnabled /\ SensitiveField(el))
          => /\ Len(sent') = Len(sent) + 1
             /\ sent'[Len(sent')].action.type = "input"
             /\ sent'[Len(sent')].action.value = "<redacted>" ]_vars

\* The change of the textarea with a credit-card autocomplete has been sent.
C15_Witness ==
  /\ sent # <<>>
  /\ sent[1].action.type = "input"
  /\ sent[1].action.target_ref.dom.tag = "textarea"
  /\ sent[1].action.value = "<redacted>"

\* C16: the message sent for a change of a password-type input is the one that
\* would have been sent had any other value been typed: action, target_ref and
\* pre-observation alike.
C16_TypedValueNeverSent ==
  [][ \A el \in Fields, value \in TypedValues :
        (OnChange(el, value) /\ recorderEnabled
           /\ el.tag = "input" /\ el.type = <<"password">>)
          => \A other \in TypedValues :
               ChangeEvent(el, other) = sent'[Len(sent')] ]_vars

\* C19: in a scan result, of any two items the earlier one is in the viewport or
\* the later one is not; with equal flags the earlier one's top is not below the
\* later one's, and with equal tops its left is not right of the later one's.
C19_ScanRanked ==
  \A i, j \in 1..Len(scanned.selector_map) :
    i < j =>
      LET a == scanned.selector_map[i]
          b == scanned.selector_map[j]
      IN /\ a.in_viewport \/ ~b.in_viewport
         /\ a.in_viewport = b.in_viewport => a.bbox.y <= b.bbox.y
         /\ (a.in_viewport = b.in_viewport /\ a.bbox.y = b.bbox.y)
              => a.bbox.x <= b.bbox.x

\* A scan that ranked an element inside the viewport before one above it, whose
\* top is the smaller.
C19_Witness ==
  /\ scanned.elements_count = 2
  /\ scanned.selector_map[1].in_viewport /\ scanned.selector_map[1].bbox.y = 1
  /\ ~scanned.selector_map[2].in_viewport /\ scanned.selector_map[2].bbox.y = -2

\* C18: the derived diff of every finalized step has an entry for url, for title
\* and for the vertical scroll position exactly when the stored pre and the
\* stored post differ in it, and the entry is {before: pre's, after: post's}.
C18_DiffOfStoredObservations ==
  \A k \in DOMAIN steps :
    LET s == steps[k].step IN
      s.derived # NullDerived
        => /\ s.derived.page_diff.url =
                IF s.pre.url # s.post.url
                  THEN [before |-> s.pre.url, after |-> s.post.url]
                  ELSE [kind |-> "undefined"]
           /\ s.derived.page_diff.title =
                IF s.pre.title # s.post.title
                  THEN [before |-> s.pre.title, after |-> s.post.title]
                  ELSE [kind |-> "undefined"]
           /\ s.derived.page_diff.scroll_y =
                IF ScrollYOf(s.pre) # ScrollYOf(s.post)
                  THEN [before |-> ScrollYOf(s.pre), after |-> ScrollYOf(s.post)]
                  ELSE [kind |-> "undefined"]

\* C21: the callback of a timer reads the settings when it fires, and the post
\* it builds follows the options of that read: dom_state is the empty form
\* exactly when captureDomState is off then, a screenshot is attached exactly
\* when captureScreenshots is on then; the stored pre stays as the action-time
\* options made it.
C21_PostFollowsCurrentOptions ==
  [][ /\ \A g \in BagToSet(handlers') \ InFlight :
           (g.type = "timer" /\ g.pc = "get_row") => g.st3 = settings
      /\ \A g \in BagToSet(handlers') \ InFlight :
           (g.type = "timer" /\ g.pc = "put_row")
             => /\ (g.row.step.post.dom_state = "empty")
                     <=> ~g.st3.options.captureDomState
                /\ (g.row.step.post.screenshot = "absent")
                     <=> ~g.st3.options.captureScreenshots
                /\ g.row.step.pre
                     = steps[StepKey(g.episodeId, g.stepNumber)].step.pre
      /\ \A f \in InFlight :
           Goes(f, "event", "put_step", "set_settings")
             => LET pre == steps'[StepKey(f.st.episodeId, f.stepNumber)].step.pre
                IN /\ (pre.dom_state = "empty") <=> ~f.st.options.captureDomState
                   /\ (pre.screenshot = "absent")
                        <=> ~f.st.options.captureScreenshots ]_vars

\* A finalized step recorded with captureDomState off and screenshots on, both
\* switched over before its timer fired.
C21_Witness ==
  \E k \in DOMAIN steps :
    /\ steps[k].step.post # NullObservation
    /\ steps[k].step.pre.dom_state = "empty"
    /\ steps[k].step.pre.screenshot = "b64"
    /\ steps[k].step.post.dom_state = "from_content"
    /\ steps[k].step.post.screenshot = "absent"

C23_AcceptedStepFinalized ==
  \A sid \in 1..MaxEvents :
    (\E f \in InFlight : f.type = "timer" /\ f.stepId = sid)
      ~> (\E k \in DOMAIN steps :
            steps[k].step.step_id = sid /\ steps[k].step.post # NullObservation)

\* C24: the held element and the held observation are set and cleared
\* together; the change action sent for field T carries the held observation
\* if the held element is T and one built at change time otherwise; and after
\* any step that sends a change action both are empty.
C24_FocusSnapshotUsedOnce ==
  [][ /\ (focusEl = NoElement) <=> (focusPre = NoSummary)
      /\ \A el \in Fields, value \in TypedValues :
           (OnChange(el, value) /\ recorderEnabled)
             => LET target == [el EXCEPT !.value = value]
                    msg == sent'[Len(sent')]
                IN /\ Len(sent') = Len(sent) + 1
                   /\ msg.action.type = "input"
                   /\ focusEl = el => msg.pre = focusPre
                   /\ focusEl # el
                        => msg.pre = BuildStateSummary(<<target>>, target, TRUE)
      /\ (Len(sent') > Len(sent) /\ sent'[Len(sent')].action.type = "input")
           => focusEl' = NoElement /\ focusPre' = NoSummary ]_vars

\* The change of the unlabelled text field has been sent with the observation
\* held since it took the focus: the observation names the field by its tag,
\* one built at change time would name it by the typed value as the action does.
C24_Witness ==
  /\ sent # <<>>
  /\ sent[1].action.type = "input"
  /\ sent[1].action.target_ref.dom.name = "hunter2"
  /\ sent[1].pre.interacted_element.dom.name = "input"
  /\ focusEl = NoElement /\ focusPre = NoSummary

\* C25: from the settings record stop has written (isRecording false, "Recording
\* stopped."), isRecording becomes true again only by the write of a start.
C25_StoppedStaysStopped ==
  [][ (/\ ~settings.isRecording
       /\ settings.lastMessage = "Recording stopped."
       /\ settings'.isRecording)
        => \E f \in InFlight : Goes(f, "start", "set_settings", "respond") ]_vars

\* C26: whenever no handler is suspended (and so in every state between
\* operations), a non-null settings.episodeId is the key of a record of the
\* episode store; and no export answers with an error.
C26_ActiveEpisodeHasRecord ==
  /\ (handlers = EmptyBag /\ settings.episodeId # NoEpisode)
       => settings.episodeId \in episodes
  /\ ~(lastOp.op = "export_done" /\ lastOp.resp = [kind |-> "error"])

\* The episodes a completed clear has wiped: started, their episode record
\* deleted, and the clear that deleted it no longer in flight.
ClearedEpisodes ==
  {e \in 1..episodeCount :
     /\ e \notin episodes
     /\ \A f \in InFlight : f.type = "clear" => f.st.episodeId # e}

\* C27: no step puts or changes a step record of an episode that a completed
\* clear has wiped.
C27_NoWriteAfterClear ==
  [][ \A k \in DOMAIN steps' :
        k[1] \in ClearedEpisodes => (k \in DOMAIN steps /\ steps'[k] = steps[k]) ]_vars

\* C28: handlers taken one at a time.  Whenever no handler is suspended, the
\* page context is enabled only if the settings say recording.
C28_EnabledOnlyWhileRecording ==
  (handlers = EmptyBag /\ recorderEnabled) => settings.isRecording

\* C29: handlers taken one at a time.  When clear has answered, the step store
\* and the episode store are empty.
C29_ClearEmptiesStores ==
  (lastOp.op = "clear_done" /\ handlers = EmptyBag)
    => (steps = <<>> /\ episodes = {})

\* The items of the visible candidates of the document that lie in the
\* viewport (every candidate of the documents is named).
ViewportCandidates ==
  {Item(document[i]) :
     i \in {j \in 1..Len(document) : document[j].visible /\ InViewport(document[j])}}

\* How often the item it occurs among the candidates and in the result.
TimesInDocument(it) ==
  Cardinality({i \in 1..Len(document) : document[i].visible /\ Item(document[i]) = it})
TimesInResult(it) ==
  Cardinality({i \in 1..Len(scanned.selector_map) : scanned.selector_map[i] = it})

\* C30: after a scan with limit L, if a visible in-viewport candidate of the
\* document is missing from the result, the result has exactly L items and all
\* of them are in the viewport.
C30_ViewportNeverDisplaced ==
  (scanLimit > 0
     /\ \E it \in ViewportCandidates : TimesInResult(it) < TimesInDocument(it))
    => /\ scanned.elements_count = scanLimit
       /\ \A i \in 1..Len(scanned.selector_map) : scanned.selector_map[i].in_viewport

====
